---- MODULE Spec2Model ----
(***************************************************************************)
(* A model of tableau_hyper_union.py: the scan of the source files into    *)
(* output_dict, the creation of the output tables, the synthesis of the    *)
(* projection queries, the row move and the cleanup of the temporary       *)
(* output file.  The Hyper engine is a black box: each of its calls either *)
(* returns what the file's catalog says or raises.                         *)
(***************************************************************************)
EXTENDS Integers, Sequences, FiniteSets, TLC

(***************************************************************************)
(* Bounds of the model.                                                    *)
(***************************************************************************)
\* The number of engine / file-system calls that may raise in one run.
MaxFailures == 2

(***************************************************************************)
(* File names.  A name is the sequence of its "."-separated parts, which   *)
(* is what str.split(".") returns and what the "*.hyper" pattern tests.    *)
(***************************************************************************)
ArgsOutputFile == <<"union", "hyper">>

FileA == <<"a", "hyper">>

FileB == <<"b", "hyper">>

NotesFile == <<"notes", "txt">>

NoFile == <<>>

\* "hyper_temp.hyper" for "union.hyper": split(".")[-1] is the extension.
TempOutputFile(name) == <<name[Len(name)] \o "_temp", "hyper">>

MatchesHyperGlob(name) == Len(name) >= 2 /\ name[Len(name)] = "hyper"

(***************************************************************************)
(* Columns, table definitions, catalogs.                                   *)
(***************************************************************************)
Column(n, t, nl, c) == [name |-> n, type |-> t, nullability |-> nl, collation |-> c]

cIdInt == Column("id", "int", "NOT_NULLABLE", "none")

cIdText == Column("id", "text", "NULLABLE", "en_US")

cVat == Column("vat", "double", "NULLABLE", "none")

cNote == Column("note", "text", "NULLABLE", "none")

cSrcFile == Column("source_file", "text", "NULLABLE", "none")

Sales == <<"public", "sales">>

Extract == <<"Extract", "Extract">>

NoTable == <<>>

TableEntry(t, cols) == [table |-> t, columns |-> cols]

SchemaEntry(s, tabs) == [schema |-> s, tables |-> tabs]

\* The catalogs a source file may hold.
CatWithSourceCol ==
    << SchemaEntry("public", << TableEntry(Sales, <<cIdInt, cSrcFile>>) >>),
       SchemaEntry("Extract", << TableEntry(Extract, <<cIdInt>>) >>) >>

CatTextId ==
    << SchemaEntry("public", << TableEntry(Sales, <<cIdText, cNote>>) >>) >>

CatPlain ==
    << SchemaEntry("public", << TableEntry(Sales, <<cIdInt>>) >>),
       SchemaEntry("Extract", << TableEntry(Extract, <<cVat>>) >>) >>

SourceCatalogs == {CatWithSourceCol, CatTextId, CatPlain}

\* The catalogs of an output file written by an earlier run.
CatOldWithProvenance ==
    << SchemaEntry("public", << TableEntry(Sales,
          << Column("id", "int", "NULLABLE", "none"), cSrcFile >>) >>) >>

CatOldNoProvenance ==
    << SchemaEntry("public", << TableEntry(Sales,
          << Column("id", "int", "NULLABLE", "none") >>) >>),
       SchemaEntry("Extract", <<>>) >>

OldOutputCatalogs == {CatOldWithProvenance, CatOldNoProvenance}

EmptyCatalog == <<>>

SourceFileColumnNames == {"", "source_file"}

(***************************************************************************)
(* Sequence helpers.                                                       *)
(***************************************************************************)
Range(s) == {s[i] : i \in 1..Len(s)}

Perms(S) == {p \in [1..Cardinality(S) -> S] : Range(p) = S}

Names(cols) == [i \in 1..Len(cols) |-> cols[i].name]

IndexOf(s, x) == CHOOSE i \in 1..Len(s) : s[i] = x /\ \A j \in 1..(i - 1) : s[j] # x

\* THA.escape_name: the name between double quotes (the names of the model
\* hold no double quote, so none is doubled).
escape_name(n) == "\"" \o n \o "\""

(***************************************************************************)
(* The state.                                                              *)
(***************************************************************************)
VARIABLES
    args,            \* the parsed command line (lines 21-26)
    directory,       \* the names of the files of the working directory
    catalog,         \* for each file, the catalog the engine reads from it
    worklist,        \* line 46 / 50
    output_file,     \* line 47 / 49
    pc,              \* the position of the script
    schemaIdx,       \* the position of "for schema in output_dict" (line 112)
    tableIdx,        \* the position of "for table in output_dict[schema]" (line 116)
    fileIdx,         \* the position of a "for hyper_file in worklist" loop
    output_dict,     \* line 54: schema > table > list of columns, in insertion order
    table_definition,\* line 124: <<>> while the name is unbound, else <<definition>>
    query,           \* line 152: <<>> while the name is unbound, else <<query>>
    rows_to_insert,  \* line 175: <<>> while the name is unbound, else <<rows>>
    created,         \* the table definitions created in the database written
    inserted,        \* the batches of rows the Inserter wrote, each with its target
    outputError,     \* "none", or the call whose exception line 200 caught
    removed,         \* the files os.remove deleted (line 197)
    failures,        \* the number of calls that raised so far
    warnings,        \* the conflict warnings logged at line 98
    merged,          \* history: the <<file, table>> whose columns line 88 iterated
    scanFailed,      \* history: the files for which line 101 caught an exception
    createFailed,    \* history: the tables for which line 140 caught an exception
    moveOpened,      \* history: the files line 147 opened
    visited,         \* history: the <<table, file>> the loop of line 144 went through
    moveFailures,    \* history: the <<table, file, step>> whose try block caught
    queriesRun,      \* history: the <<table, file>> whose completed query line 175 ran
    projections      \* history: the queries line 167 completed, with their target

vars == <<args, directory, catalog, worklist, output_file, pc, schemaIdx, tableIdx,
          fileIdx, output_dict, table_definition, query, rows_to_insert, created,
          inserted, outputError, removed, failures, warnings, merged, scanFailed,
          createFailed, moveOpened, visited, moveFailures, queriesRun, projections>>

(***************************************************************************)
(* Lines 45-50: the worklist and the name of the file written.  glob       *)
(* returns the matching names in an arbitrary order.                       *)
(***************************************************************************)
OutputFileOf(a) ==
    IF ~a.preserve_output_file THEN a.output_file ELSE TempOutputFile(a.output_file)

Worklists(a, dir) ==
    Perms({f \in dir : MatchesHyperGlob(f) /\ f # OutputFileOf(a)})

(***************************************************************************)
(* Lines 66-105: the scan of one file.  The body of the try is unrolled    *)
(* into the sequence of its steps; the steps that call the engine may      *)
(* raise, the others only update output_dict.                              *)
(***************************************************************************)
ScanStep(o, s, t, cols) == [op |-> o, schema |-> s, table |-> t, columns |-> cols]

RECURSIVE TableSteps(_, _)
TableSteps(s, tabs) ==
    IF tabs = <<>> THEN <<>>
    ELSE << ScanStep("add_table", s, Head(tabs).table, <<>>),
            ScanStep("get_table_definition", s, Head(tabs).table, <<>>),
            ScanStep("columns", s, Head(tabs).table, Head(tabs).columns) >>
         \o TableSteps(s, Tail(tabs))

RECURSIVE SchemaSteps(_)
SchemaSteps(cat) ==
    IF cat = <<>> THEN <<>>
    ELSE << ScanStep("add_schema", Head(cat).schema, NoTable, <<>>),
            ScanStep("get_table_names", Head(cat).schema, NoTable, <<>>) >>
         \o TableSteps(Head(cat).schema, Head(cat).tables)
         \o SchemaSteps(Tail(cat))

ScanSteps(cat) ==
    << ScanStep("Connection", "", NoTable, <<>>),
       ScanStep("get_schema_names", "", NoTable, <<>>) >> \o SchemaSteps(cat)

EngineCalls == {"Connection", "get_schema_names", "get_table_names", "get_table_definition"}

\* output_dict lookups
SchemasOf(od) == [i \in 1..Len(od) |-> od[i].schema]

TablesOf(od, s) == od[IndexOf(SchemasOf(od), s)].tables

TableNamesOf(od, s) == [i \in 1..Len(TablesOf(od, s)) |-> TablesOf(od, s)[i].table]

ColumnsOf(od, s, t) == TablesOf(od, s)[IndexOf(TableNamesOf(od, s), t)].columns

SetColumns(od, s, t, cols) ==
    [od EXCEPT ![IndexOf(SchemasOf(od), s)].tables[IndexOf(TableNamesOf(od, s), t)].columns = cols]

\* lines 74-76
AddSchema(od, s) ==
    IF s \notin Range(SchemasOf(od)) THEN Append(od, SchemaEntry(s, <<>>)) ELSE od

\* lines 81-83
AddTable(od, s, t) ==
    IF t \notin Range(TableNamesOf(od, s))
    THEN [od EXCEPT ![IndexOf(SchemasOf(od), s)].tables = Append(@, TableEntry(t, <<>>))]
    ELSE od

\* line 95
MatchingColumn(cols, column) == cols[IndexOf(Names(cols), column.name)]

\* MergeColumn with the definition found last written over the existing one.
MergeColumnLastWins(cols, column) ==
    IF column.name \notin Range(Names(cols)) THEN Append(cols, column)
    ELSE [cols EXCEPT ![IndexOf(Names(cols), column.name)] = column]

\* MergeColumn without the test of line 91.
MergeColumnAlwaysAppends(cols, column) == Append(cols, column)

\* lines 91-92: a column whose name is new is appended; an existing one is left alone.
MergeColumn(cols, column) ==
    IF column.name \notin Range(Names(cols)) THEN Append(cols, column) ELSE cols

\* line 96
Differs(column, existing) ==
    \/ column.type # existing.type
    \/ column.nullability # existing.nullability
    \/ column.collation # existing.collation

\* lines 93-98: the warning logged for a column, if any.
ConflictWarnings(cols, column, s, t, file) ==
    IF column.name \in Range(Names(cols)) /\ Differs(column, MatchingColumn(cols, column))
    THEN {[schema |-> s, table |-> t, column |-> column.name,
           existing |-> MatchingColumn(cols, column), file |-> file, found |-> column]}
    ELSE {}

\* lines 88-100: the loop over the columns of one source table.
RECURSIVE MergeColumns(_, _)
MergeColumns(cols, new) ==
    IF new = <<>> THEN cols
    ELSE MergeColumns(MergeColumn(cols, Head(new)), Tail(new))

RECURSIVE MergeWarnings(_, _, _, _, _)
MergeWarnings(cols, new, s, t, file) ==
    IF new = <<>> THEN {}
    ELSE ConflictWarnings(cols, Head(new), s, t, file)
         \cup MergeWarnings(MergeColumn(cols, Head(new)), Tail(new), s, t, file)

ScanState(od, w, m) == [od |-> od, warnings |-> w, merged |-> m]

ApplyScanStep(st, step, file) ==
    CASE step.op = "add_schema" ->
           [st EXCEPT !.od = AddSchema(st.od, step.schema)]
      [] step.op = "add_table" ->
           [st EXCEPT !.od = AddTable(st.od, step.schema, step.table)]
      [] step.op = "columns" ->
           [st EXCEPT
              !.od = SetColumns(st.od, step.schema, step.table,
                        MergeColumns(ColumnsOf(st.od, step.schema, step.table), step.columns)),
              !.warnings = @ \cup MergeWarnings(ColumnsOf(st.od, step.schema, step.table),
                                                step.columns, step.schema, step.table, file),
              !.merged = @ \cup {<<file, step.table>>}]
      [] OTHER -> st

\* The state after the first k steps of the scan of a file.
RECURSIVE ApplyScanSteps(_, _, _, _)
ApplyScanSteps(st, steps, k, file) ==
    IF k = 0 THEN st
    ELSE ApplyScanSteps(ApplyScanStep(st, Head(steps), file), Tail(steps), k - 1, file)

(***************************************************************************)
(* Lines 109-142: the database written and its tables.                     *)
(***************************************************************************)
\* line 121: the provenance column is wanted and no column bears its name.
NeedsSourceFileColumn(cols, name) ==
    /\ Len(name) > 0
    /\ \A i \in 1..Len(cols) : escape_name(cols[i].name) # escape_name(name)

\* line 122
WithSourceFileColumn(cols, name) ==
    IF NeedsSourceFileColumn(cols, name)
    THEN Append(cols, Column(name, "text", "NOT_NULLABLE", "none"))
    ELSE cols

\* OutputColumn with line 130 instead of line 131.
OutputColumnSourceNullability(column) ==
    Column(column.name, column.type, column.nullability, column.collation)

\* lines 127-133: a column of the table created
OutputColumn(column) ==
    Column(column.name, column.type, "NULLABLE", column.collation)

\* lines 124-135
TableDefinition(t, cols) ==
    [table |-> t, columns |-> [i \in 1..Len(cols) |-> OutputColumn(cols[i])]]

\* create_table_if_not_exists (line 137)
CreateTableIfNotExists(db, td) ==
    IF \E d \in db : d.table = td.table THEN db ELSE db \cup {td}

(***************************************************************************)
(* The place the loops of lines 112, 116 and 144 go to next.               *)
(***************************************************************************)
Position(p, si, ti, fi) == [pc |-> p, schemaIdx |-> si, tableIdx |-> ti, fileIdx |-> fi]

\* after the last file of a table: the next table, or the next schema
AfterTable(od, pos) ==
    IF pos.tableIdx < Len(od[pos.schemaIdx].tables)
    THEN Position("table", pos.schemaIdx, pos.tableIdx + 1, 1)
    ELSE Position("schema", pos.schemaIdx + 1, 1, 1)

\* after one file of a table (line 144)
AfterFile(od, wl, pos) ==
    IF pos.fileIdx < Len(wl)
    THEN Position("move", pos.schemaIdx, pos.tableIdx, pos.fileIdx + 1)
    ELSE AfterTable(od, pos)

\* AfterPair without the except clause of line 191: what escapes ends the run.
AfterPairUncaught(od, wl, pos, escaped) ==
    IF escaped THEN Position("done", pos.schemaIdx, pos.tableIdx, pos.fileIdx)
    ELSE AfterFile(od, wl, pos)

\* lines 191-193: whatever escapes the body of the try of line 146 is caught
\* there, and the loop of line 144 goes on.
AfterPair(od, wl, pos, escaped) == AfterFile(od, wl, pos)

(***************************************************************************)
(* Lines 151-167: the projection query.                                    *)
(***************************************************************************)
Entry(k, n) == [kind |-> k, name |-> n]

\* lines 153-159: the entries of the columns of the target, the one that bears
\* the name of the provenance column left out.
RECURSIVE ColumnEntries(_, _, _)
ColumnEntries(cols, sourceNames, name) ==
    IF cols = <<>> THEN <<>>
    ELSE LET column == Head(cols)
             rest == ColumnEntries(Tail(cols), sourceNames, name)
         IN IF column.name \in sourceNames /\ escape_name(column.name) # escape_name(name)
            THEN <<Entry("column", column.name)>> \o rest
            ELSE IF escape_name(column.name) # escape_name(name)
            THEN <<Entry("null", column.name)>> \o rest
            ELSE rest

\* lines 160-164
SourceFileEntry(file, a) ==
    IF Len(a.source_file_column_name) > 0
    THEN IF file # a.output_file
         THEN <<Entry("literal", a.source_file_column_name)>>
         ELSE <<Entry("passthrough", a.source_file_column_name)>>
    ELSE <<>>

Query(c, e, f, t) == [complete |-> c, entries |-> e, file |-> f, table |-> t]

\* lines 151-173.  td is table_definition; k = 0, or get_table_definition
\* (line 154) raises for the column numbered k.  The text built so far stays in
\* query when the try block is left by an exception.
BuildQuery(td, sourceCols, file, t, a, k) ==
    IF td = <<>>
    THEN Query(FALSE, <<>>, file, t)
    ELSE IF k > 0
    THEN Query(FALSE, ColumnEntries(SubSeq(td[1].columns, 1, k - 1),
                                    Range(Names(sourceCols)), a.source_file_column_name),
               file, t)
    ELSE Query(TRUE, ColumnEntries(td[1].columns, Range(Names(sourceCols)),
                                   a.source_file_column_name)
                     \o SourceFileEntry(file, a),
               file, t)

(***************************************************************************)
(* Lines 174-186: the rows read and written.  One symbolic row stands for  *)
(* the rows of a source table: a value is the data of a source column, a   *)
(* NULL or a string literal.                                               *)
(***************************************************************************)
Value(k, f, t, c, ty) == [kind |-> k, file |-> f, table |-> t, col |-> c, type |-> ty]

TypeOfColumn(sourceCols, n) == sourceCols[IndexOf(Names(sourceCols), n)].type

ValueOf(e, sourceCols, file, t) ==
    CASE e.kind = "column" -> Value("data", file, t, e.name, TypeOfColumn(sourceCols, e.name))
      [] e.kind = "passthrough" -> Value("data", file, t, e.name, TypeOfColumn(sourceCols, e.name))
      [] e.kind = "literal" -> Value("literal", file, NoTable, "", "text")
      [] OTHER -> Value("null", NoFile, NoTable, "", "any")

\* the query names a column the source table does not have
UnknownColumn(q, sourceCols) ==
    \E i \in 1..Len(q.entries) :
        /\ q.entries[i].kind \in {"column", "passthrough"}
        /\ q.entries[i].name \notin Range(Names(sourceCols))

\* the text of the query ends in the comma line 166 would have cut
SyntaxError(q) == ~q.complete /\ q.entries # <<>>

\* the select list of the query is empty: whether the engine takes it is not
\* known, both answers are modelled
EmptySelectList(q) == q.entries = <<>>

Rows(q, sourceCols) ==
    [file |-> q.file,
     table |-> IF q.complete THEN q.table ELSE NoTable,
     vals |-> [i \in 1..Len(q.entries) |-> ValueOf(q.entries[i], sourceCols, q.file, q.table)]]

\* the Inserter refuses the rows: no such table, a row of another width, or a
\* value of another type than its column
InserterRefuses(db, td, rows) ==
    \/ td \notin db
    \/ Len(rows.vals) # Len(td.columns)
    \/ \E i \in 1..Len(rows.vals) : rows.vals[i].type \notin {"any", td.columns[i].type}

Insertion(td, rows, t, file) ==
    [into |-> td.table, columns |-> td.columns, rows |-> rows, table |-> t, during |-> file]

(***************************************************************************)
(* Lines 149-186: the three try blocks of one source file of one table.    *)
(* f says which calls of the engine raise.                                 *)
(***************************************************************************)
Bool(b) == IF b THEN 1 ELSE 0

\* how many calls f makes raise
Raised(f) == Bool(f.build > 0) + Bool(f.execute) + Bool(f.insert)

\* The faults of one iteration: at most budget calls raise.
Faults(td, budget) ==
    {f \in [build : 0..(IF td = <<>> THEN 0 ELSE Len(td[1].columns)),
            execute : BOOLEAN, insert : BOOLEAN, emptyListTaken : BOOLEAN] :
        Raised(f) <= budget}

HasTable(cat, s, t) ==
    \E i \in 1..Len(cat) : cat[i].schema = s /\ \E j \in 1..Len(cat[i].tables) : cat[i].tables[j].table = t

SourceColumns(cat, s, t) ==
    LET i == CHOOSE i \in 1..Len(cat) : cat[i].schema = s
    IN cat[i].tables[CHOOSE j \in 1..Len(cat[i].tables) : cat[i].tables[j].table = t].columns

\* lines 151-173: the try block is left by an exception (the NameError of an
\* unbound table_definition at line 153, or get_table_definition at line 154)
BuildRaises(td, f) == td = <<>> \/ f.build > 0

\* the engine refuses the text of the query whatever the state of the file
Refused(q, sourceCols) == SyntaxError(q) \/ UnknownColumn(q, sourceCols)

\* lines 174-178: execute_list_query raises
ExecuteRaises(q, sourceCols, f) ==
    \/ Refused(q, sourceCols)
    \/ EmptySelectList(q) /\ ~f.emptyListTaken
    \/ f.execute

\* line 175: rows_to_insert is assigned only if execute_list_query returns
ExecuteListQuery(q, sourceCols, rows, f) ==
    IF ExecuteRaises(q, sourceCols, f) THEN rows ELSE <<Rows(q, sourceCols)>>

\* line 180 or 181 raises a NameError
Unbound(td, rows) == td = <<>> \/ rows = <<>>

\* lines 179-185: the try block is left by an exception
InsertRaises(db, td, rows, f) ==
    \/ Unbound(td, rows)
    \/ InserterRefuses(db, td[1], rows[1])
    \/ f.insert

\* f names only calls that would not raise anyway
Canonical(db, td, q, sourceCols, rows, f) ==
    /\ f.emptyListTaken => (EmptySelectList(q) /\ ~Refused(q, sourceCols) /\ ~f.execute)
    /\ f.execute => ~Refused(q, sourceCols)
    /\ f.insert => (~Unbound(td, rows) /\ ~InserterRefuses(db, td[1], rows[1]))

\* the try blocks of lines 151, 174 and 179 that caught an exception
FailedSteps(db, td, q, sourceCols, rows, f) ==
    {st \in {"build", "execute", "insert"} :
        \/ st = "build" /\ BuildRaises(td, f)
        \/ st = "execute" /\ ExecuteRaises(q, sourceCols, f)
        \/ st = "insert" /\ InsertRaises(db, td, rows, f)}

(***************************************************************************)
(* The script.  Every except clause logs and calls input("Press Enter to   *)
(* continue..."); the operator is taken to answer, so the call returns.    *)
(***************************************************************************)
TypeArgs ==
    [output_file : {ArgsOutputFile}, preserve_output_file : BOOLEAN,
     source_file_column_name : SourceFileColumnNames]

\* The working directory: two source files, or one and the output of an
\* earlier run, with or without the temporary file an earlier run left.
Directories ==
    { {FileA, FileB, NotesFile}, {FileA, NotesFile, ArgsOutputFile},
      {FileA, NotesFile, ArgsOutputFile, TempOutputFile(ArgsOutputFile)} }

CatalogsOf(f) ==
    IF f \in {FileA, FileB} THEN SourceCatalogs
    ELSE IF f = ArgsOutputFile THEN OldOutputCatalogs
    ELSE IF f = TempOutputFile(ArgsOutputFile) THEN {CatOldWithProvenance}
    ELSE {EmptyCatalog}

Init ==
    /\ args \in TypeArgs
    /\ directory \in Directories
    /\ catalog \in {c \in [directory -> SourceCatalogs \cup OldOutputCatalogs \cup {EmptyCatalog}] :
                       \A f \in directory : c[f] \in CatalogsOf(f)}
    /\ worklist \in Worklists(args, directory)
    /\ output_file = OutputFileOf(args)
    /\ pc = "scan"
    /\ schemaIdx = 1
    /\ tableIdx = 1
    /\ fileIdx = 1
    /\ output_dict = <<>>
    /\ table_definition = <<>>
    /\ query = <<>>
    /\ rows_to_insert = <<>>
    /\ created = {}
    /\ inserted = {}
    /\ outputError = "none"
    /\ removed = {}
    /\ failures = 0
    /\ warnings = {}
    /\ merged = {}
    /\ scanFailed = {}
    /\ createFailed = {}
    /\ moveOpened = {}
    /\ visited = {}
    /\ moveFailures = {}
    /\ queriesRun = {}
    /\ projections = {}

configVars == <<args, catalog, worklist, output_file>>

buildVars == <<table_definition, created, createFailed>>

moveVars == <<query, rows_to_insert, inserted, moveOpened, visited, moveFailures,
              queriesRun, projections>>

scanVars == <<warnings, merged, scanFailed>>

\* Lines 66-105, one iteration: the whole scan of worklist[fileIdx], raising at
\* the engine call numbered k + 1 or not at all (k = all the steps).
ScanFile ==
    /\ pc = "scan"
    /\ fileIdx <= Len(worklist)
    /\ LET file == worklist[fileIdx]
           steps == ScanSteps(catalog[file])
       IN \E k \in 0..Len(steps) :
            /\ k < Len(steps) => (steps[k + 1].op \in EngineCalls /\ failures < MaxFailures)
            /\ LET st == ApplyScanSteps(ScanState(output_dict, warnings, merged), steps, k, file)
               IN /\ output_dict' = st.od
                  /\ warnings' = st.warnings
                  /\ merged' = st.merged
            /\ scanFailed' = IF k < Len(steps) THEN scanFailed \cup {file} ELSE scanFailed
            /\ failures' = IF k < Len(steps) THEN failures + 1 ELSE failures
    /\ fileIdx' = fileIdx + 1
    /\ UNCHANGED <<configVars, buildVars, moveVars, directory, pc, schemaIdx, tableIdx,
                   outputError, removed>>

\* Line 110: the database written is created, or replaced by an empty one.
OpenOutput ==
    /\ pc = "scan"
    /\ fileIdx > Len(worklist)
    /\ \/ /\ directory' = directory \cup {output_file}
          /\ pc' = "schema"
          /\ UNCHANGED <<outputError, failures>>
       \/ /\ failures < MaxFailures
          /\ failures' = failures + 1
          /\ outputError' = "Connection"
          /\ pc' = "done"
          /\ UNCHANGED directory
    /\ schemaIdx' = 1
    /\ UNCHANGED <<configVars, buildVars, moveVars, scanVars, tableIdx, fileIdx,
                   output_dict, removed>>

\* Line 114, and the entry of the loop of line 116.
CreateSchema ==
    /\ pc = "schema"
    /\ schemaIdx <= Len(output_dict)
    /\ \/ /\ LET pos == IF output_dict[schemaIdx].tables = <<>>
                         THEN Position("schema", schemaIdx + 1, 1, 1)
                         ELSE Position("table", schemaIdx, 1, 1)
             IN /\ pc' = pos.pc
                /\ schemaIdx' = pos.schemaIdx
                /\ tableIdx' = pos.tableIdx
          /\ UNCHANGED <<outputError, failures>>
       \/ /\ failures < MaxFailures
          /\ failures' = failures + 1
          /\ outputError' = "create_schema"
          /\ pc' = "done"
          /\ UNCHANGED <<schemaIdx, tableIdx>>
    /\ UNCHANGED <<configVars, buildVars, moveVars, scanVars, directory, fileIdx,
                   output_dict, removed>>

\* Lines 118-142: the provenance column, the definition, the table.  The try
\* block ends at line 138, or is left by an exception of line 121, of lines
\* 124-135 or of line 137.
BuildTable ==
    /\ pc = "table"
    /\ LET t == output_dict[schemaIdx].tables[tableIdx].table
           cols == output_dict[schemaIdx].tables[tableIdx].columns
           cols1 == WithSourceFileColumn(cols, args.source_file_column_name)
           od1 == [output_dict EXCEPT ![schemaIdx].tables[tableIdx].columns = cols1]
           td == TableDefinition(t, cols1)
           pos == IF Len(worklist) = 0
                  THEN AfterTable(output_dict, Position("table", schemaIdx, tableIdx, 1))
                  ELSE Position("move", schemaIdx, tableIdx, 1)
       IN /\ \E outcome \in {"created", "raise_121", "raise_124", "raise_137"} :
               /\ outcome # "created" => failures < MaxFailures
               /\ failures' = IF outcome = "created" THEN failures ELSE failures + 1
               /\ output_dict' = IF outcome = "raise_121" THEN output_dict ELSE od1
               /\ table_definition' = IF outcome \in {"created", "raise_137"}
                                      THEN <<td>> ELSE table_definition
               /\ created' = IF outcome = "created"
                             THEN CreateTableIfNotExists(created, td) ELSE created
               /\ createFailed' = IF outcome = "created"
                                  THEN createFailed ELSE createFailed \cup {t}
          /\ pc' = pos.pc
          /\ schemaIdx' = pos.schemaIdx
          /\ tableIdx' = pos.tableIdx
          /\ fileIdx' = pos.fileIdx
    /\ UNCHANGED <<configVars, moveVars, scanVars, directory, outputError, removed>>

\* the loops of lines 112, 116 and 144 go to next
GoTo(next) ==
    /\ pc' = next.pc
    /\ schemaIdx' = next.schemaIdx
    /\ tableIdx' = next.tableIdx
    /\ fileIdx' = next.fileIdx

\* Lines 144-193, one iteration: Connection (line 147) or the catalog (line
\* 149) raises and line 191 catches; or the file has no such table (line 189);
\* or the query is built, run and its rows written (lines 151-186), where a
\* NameError of line 186 is caught at line 191 too.
MoveRows ==
    /\ pc = "move"
    /\ LET file == worklist[fileIdx]
           s == output_dict[schemaIdx].schema
           t == output_dict[schemaIdx].tables[tableIdx].table
           pos == Position(pc, schemaIdx, tableIdx, fileIdx)
       IN /\ visited' = visited \cup {<<t, file>>}
          /\ \/ /\ failures < MaxFailures
                /\ failures' = failures + 1
                /\ \E opened \in BOOLEAN :
                     moveOpened' = IF opened THEN moveOpened \cup {file} ELSE moveOpened
                /\ GoTo(AfterPair(output_dict, worklist, pos, TRUE))
                /\ UNCHANGED <<query, rows_to_insert, inserted, moveFailures, queriesRun,
                               projections>>
             \/ /\ ~HasTable(catalog[file], s, t)
                /\ moveOpened' = moveOpened \cup {file}
                /\ GoTo(AfterPair(output_dict, worklist, pos, FALSE))
                /\ UNCHANGED <<query, rows_to_insert, inserted, moveFailures, queriesRun,
                               projections, failures>>
             \/ /\ HasTable(catalog[file], s, t)
                /\ moveOpened' = moveOpened \cup {file}
                /\ \E f \in Faults(table_definition, MaxFailures - failures) :
                   \E sourceCols \in {SourceColumns(catalog[file], s, t)} :
                   \E q \in {BuildQuery(table_definition, sourceCols, file, t, args, f.build)} :
                   \E rows \in {ExecuteListQuery(q, sourceCols, rows_to_insert, f)} :
                     /\ Canonical(created, table_definition, q, sourceCols, rows, f)
                     /\ failures' = failures + Raised(f)
                     /\ query' = <<q>>
                     /\ projections' = IF q.complete
                                       THEN projections \cup {[query |-> q, target |-> table_definition[1]]}
                                       ELSE projections
                     /\ rows_to_insert' = rows
                     /\ queriesRun' = IF q.complete /\ ~ExecuteRaises(q, sourceCols, f)
                                      THEN queriesRun \cup {<<t, file>>} ELSE queriesRun
                     /\ inserted' = IF InsertRaises(created, table_definition, rows, f)
                                    THEN inserted
                                    ELSE inserted \cup {Insertion(table_definition[1], rows[1], t, file)}
                     /\ moveFailures' = moveFailures \cup
                          {<<t, file, st>> : st \in FailedSteps(created, table_definition, q,
                                                                sourceCols, rows, f)}
                     /\ GoTo(AfterPair(output_dict, worklist, pos, rows = <<>>))
    /\ UNCHANGED <<configVars, buildVars, scanVars, directory, output_dict, outputError,
                   removed>>

\* Lines 195-198, after the loop of line 112.
Cleanup ==
    /\ pc = "schema"
    /\ schemaIdx > Len(output_dict)
    /\ pc' = "done"
    /\ IF output_file = args.output_file
       THEN UNCHANGED <<directory, outputError, removed, failures>>
       ELSE IF args.output_file \notin directory
       THEN /\ outputError' = "remove"
            /\ UNCHANGED <<directory, removed, failures>>
       ELSE \/ /\ failures < MaxFailures
               /\ failures' = failures + 1
               /\ outputError' = "remove"
               /\ UNCHANGED <<directory, removed>>
            \/ /\ removed' = removed \cup {args.output_file}
               /\ \/ /\ directory' = (directory \ {output_file}) \cup {args.output_file}
                     /\ UNCHANGED <<outputError, failures>>
                  \/ /\ failures < MaxFailures
                     /\ failures' = failures + 1
                     /\ outputError' = "rename"
                     /\ directory' = directory \ {args.output_file}
    /\ UNCHANGED <<configVars, buildVars, moveVars, scanVars, schemaIdx, tableIdx,
                   fileIdx, output_dict>>

Next ==
    \/ ScanFile
    \/ OpenOutput
    \/ CreateSchema
    \/ BuildTable
    \/ MoveRows
    \/ Cleanup

Spec == Init /\ [][Next]_vars

(***************************************************************************)
(* What the properties below speak of.                                     *)
(***************************************************************************)
\* the <<schema, table>> entries of output_dict
UnifiedTables ==
    UNION { {<<output_dict[i].schema, output_dict[i].tables[j].table>> :
                j \in 1..Len(output_dict[i].tables)} : i \in 1..Len(output_dict) }

\* the loop of line 66 is over and line 110 has not run yet
ScanComplete == pc = "scan" /\ fileIdx > Len(worklist)

\* the files of the worklist whose catalog holds the table
FilesWith(s, t) == {f \in Range(worklist) : HasTable(catalog[f], s, t)}

\* the files whose columns of the table the scan went through
FilesMerged(t) == {f \in Range(worklist) : <<f, t>> \in merged}

NamesIn(f, s, t) == Range(Names(SourceColumns(catalog[f], s, t)))

\* the first file of the worklist, among those the scan read the table of, that
\* has a column of that name in the table
FirstExposing(s, t, n) ==
    worklist[CHOOSE i \in 1..Len(worklist) :
        /\ worklist[i] \in FilesMerged(t) /\ n \in NamesIn(worklist[i], s, t)
        /\ \A j \in 1..(i - 1) :
             ~(worklist[j] \in FilesMerged(t) /\ n \in NamesIn(worklist[j], s, t))]

SourceColumn(f, s, t, n) ==
    LET cols == SourceColumns(catalog[f], s, t) IN cols[IndexOf(Names(cols), n)]

\* every <<table, file>> the loops of lines 116 and 144 are to go through
AllPairs == {<<st[2], f>> : st \in UnifiedTables, f \in Range(worklist)}

FirstTable == output_dict[1].tables[1].table

(***************************************************************************)
(* C1.  During the scan, the unified definition of a column is the one of  *)
(* the first scanned file that exposes a column of that name in the table; *)
(* a later file with another type, nullability or collation leaves it as   *)
(* it is, a warning is logged for that file, and the conflict makes no     *)
(* file fail (only a call of the engine that raises does).                 *)
(***************************************************************************)
C1_FirstSeenWins ==
    pc = "scan" =>
      /\ \A st \in UnifiedTables :
           LET cols == ColumnsOf(output_dict, st[1], st[2])
           IN /\ \A i \in 1..Len(cols) :
                   /\ \E f \in FilesMerged(st[2]) : cols[i].name \in NamesIn(f, st[1], st[2])
                   /\ cols[i] = SourceColumn(FirstExposing(st[1], st[2], cols[i].name),
                                             st[1], st[2], cols[i].name)
              /\ \A f \in FilesMerged(st[2]) : \A n \in NamesIn(f, st[1], st[2]) :
                   LET found == SourceColumn(f, st[1], st[2], n)
                       kept == MatchingColumn(cols, found)
                   IN Differs(found, kept) =>
                        [schema |-> st[1], table |-> st[2], column |-> n,
                         existing |-> kept, file |-> f, found |-> found] \in warnings
      /\ failures = 0 => scanFailed = {}

\* FileB scanned before FileA, both read, their id columns in conflict: B's stays.
C1_Witness ==
    /\ ScanComplete
    /\ worklist = <<FileB, FileA>>
    /\ scanFailed = {}
    /\ \E w \in warnings :
         /\ w.file = FileA
         /\ w.existing = SourceColumn(FileB, w.schema, w.table, w.column)
         /\ MatchingColumn(ColumnsOf(output_dict, w.schema, w.table), w.found) = w.existing

(***************************************************************************)
(* C2, as stated.  After the scan, the unified column names of a table are *)
(* the union of the column names of that table over all the source files   *)
(* that contain the table, each name once.                                 *)
(***************************************************************************)
C2_UnionOverAllFiles ==
    ScanComplete =>
      \A st \in UnifiedTables :
        LET cols == ColumnsOf(output_dict, st[1], st[2])
        IN /\ Range(Names(cols)) = UNION {NamesIn(f, st[1], st[2]) : f \in FilesWith(st[1], st[2])}
           /\ \A i, j \in 1..Len(cols) : cols[i].name = cols[j].name => i = j

(***************************************************************************)
(* C2, amended.  After the scan, the unified column names of a table are   *)
(* the union of the column names of that table over the source files whose *)
(* definition of the table the scan read (a file whose scan raised before  *)
(* it reached the table adds nothing), each name once.                     *)
(***************************************************************************)
C2_UnionOverFilesRead ==
    ScanComplete =>
      \A st \in UnifiedTables :
        LET cols == ColumnsOf(output_dict, st[1], st[2])
        IN /\ Range(Names(cols)) = UNION {NamesIn(f, st[1], st[2]) : f \in FilesMerged(st[2])}
           /\ \A i, j \in 1..Len(cols) : cols[i].name = cols[j].name => i = j

\* Both files hold the same catalog, one was read whole and the scan of the
\* other raised: the table has the columns of the one, each once.
C2_Witness ==
    /\ ScanComplete
    /\ Cardinality(scanFailed) = 1
    /\ \E f, g \in Range(worklist) :
         /\ f # g /\ catalog[f] = catalog[g]
         /\ <<f, Sales>> \in merged /\ <<g, Sales>> \in merged
         /\ g \in scanFailed /\ <<g, Extract>> \notin merged
         /\ HasTable(catalog[g], "Extract", Extract)
         /\ Len(ColumnsOf(output_dict, "public", Sales)) = 2

(***************************************************************************)
(* C3.  Every column of every table definition created in the database     *)
(* written is nullable, whatever the unified model says of it, the         *)
(* provenance column appended as not-null included.                        *)
(***************************************************************************)
C3_AllNullable ==
    /\ \A td \in created : \A i \in 1..Len(td.columns) : td.columns[i].nullability = "NULLABLE"
    /\ \A i \in 1..Len(table_definition) : \A j \in 1..Len(table_definition[i].columns) :
         table_definition[i].columns[j].nullability = "NULLABLE"

\* A table was created whose unified columns hold a not-null source column and
\* the not-null provenance column.
C3_Witness ==
    \E td \in created :
      LET s == td.table[1]
          cols == ColumnsOf(output_dict, s, td.table)
      IN /\ Names(cols) = Names(td.columns)
         /\ \E i, j \in 1..Len(cols) :
              /\ cols[i].name = args.source_file_column_name
              /\ cols[i].nullability = "NOT_NULLABLE"
              /\ cols[j].name = "id"
              /\ cols[j].nullability = "NOT_NULLABLE"

(***************************************************************************)
(* C4, as stated.  Every projection list built has one entry per column of *)
(* the target table definition, the i-th entry for the i-th column.        *)
(***************************************************************************)
C4_ProjectionInTargetOrder ==
    \A p \in projections :
      /\ Len(p.query.entries) = Len(p.target.columns)
      /\ \A i \in 1..Len(p.query.entries) :
           i <= Len(p.target.columns) => p.query.entries[i].name = p.target.columns[i].name

(***************************************************************************)
(* C5, as stated.  With the provenance column enabled, a row written from  *)
(* an ordinary source file carries the name of that file in the provenance *)
(* column, and a row re-read from the earlier output carries the value it  *)
(* had there; none carries the name of the temporary output file.          *)
(***************************************************************************)
C5_ProvenanceValue ==
    Len(args.source_file_column_name) > 0 =>
      \A ins \in inserted :
        \A i \in 1..Len(ins.columns) :
          ins.columns[i].name = args.source_file_column_name =>
            LET v == ins.rows.vals[i]
            IN /\ ins.rows.file # args.output_file =>
                    v = Value("literal", ins.rows.file, NoTable, "", "text")
               /\ ins.rows.file = args.output_file =>
                    /\ v.kind = "data"
                    /\ v.file = args.output_file
                    /\ v.col = args.source_file_column_name
               /\ output_file # args.output_file => ~(v.kind = "literal" /\ v.file = output_file)

(***************************************************************************)
(* C6, as stated.  A file whose scan raised is skipped for the rest of the *)
(* run: the row move does not open it and writes no row of it.             *)
(***************************************************************************)
C6_FailedFileSkipped ==
    /\ scanFailed \cap moveOpened = {}
    /\ \A ins \in inserted : ins.rows.file \notin scanFailed

(***************************************************************************)
(* C7, as stated.  A table whose definition or creation raised is skipped: *)
(* no query is run for it and no rows are written while it is processed.   *)
(***************************************************************************)
C7_FailedTableSkipped ==
    \A t \in createFailed :
      /\ \A f \in Range(worklist) : <<t, f>> \notin queriesRun
      /\ \A ins \in inserted : ins.table # t

C9_RowsOfTheSamePair ==
    \A ins \in inserted : ins.rows.file = ins.during /\ ins.rows.table = ins.table

(***************************************************************************)
(* C10, as stated.  In append mode the earlier output file is deleted only *)
(* if the rows of every table of it were written to the new output.        *)
(***************************************************************************)
C10_OldRowsKept ==
    args.output_file \in removed =>
      \A i \in 1..Len(catalog[args.output_file]) :
        \A j \in 1..Len(catalog[args.output_file][i].tables) :
          LET t == catalog[args.output_file][i].tables[j].table
          IN \E ins \in inserted :
               /\ ins.rows.file = args.output_file
               /\ ins.rows.table = t
               /\ ins.into = t

====
